---- MODULE Spec2Model ----
(***************************************************************************)
(* The WebSocket client of src/websocketclient.js as a state machine.      *)
(*                                                                         *)
(* The handlers of the source are operators over a record m ("the          *)
(* machine"): the WebSocketClient object (m.ws) together with the objects  *)
(* its handlers act on (its socket, its HTTP request, the reconnect        *)
(* timers, the zlib flushes in flight, what was written and emitted).      *)
(* Every action applies one whole handler to the machine and commits the   *)
(* result.  A JavaScript exception ends the handler where it is thrown:    *)
(* what was assigned before stays, result is "TypeError".                  *)
(*                                                                         *)
(* null/undefined of a Buffer field is the empty sequence where the code   *)
(* cannot tell them apart (current.buffer, current.body), and Null where   *)
(* it can (inflatechunks, deflatechunks, closemessage).                    *)
(***************************************************************************)
EXTENDS Integers, Sequences, FiniteSets, TLC

VARIABLES
    ws,         \* the WebSocketClient object: its fields
    sock,       \* the socket object of the last Upgrade: state, listeners
    written,    \* the frames written to that socket, in order
    request,    \* the HTTP request of the last connect: state, key, url
    timers,     \* reconnect timers scheduled and not yet fired
    inflights,  \* inflate flushes in flight (callback not yet run)
    deflights,  \* deflate flushes in flight (callback not yet run)
    emitted,    \* the events emitted by the last handler
    messages,   \* the message events emitted since the last Upgrade
    result,     \* outcome of the last handler: none, true, false, TypeError
    wire,       \* bytes the peer has sent that the socket has not delivered
    peer        \* the peer: what it sent on this socket, what it has yet to send

vars == <<ws, sock, written, request, timers, inflights, deflights, emitted,
          messages, result, wire, peer>>

----------------------------------------------------------------------------
(* Bounds of the model. *)

MaxReconnect == 2          \* reconnect timers that may fire
MaxWritten == 2            \* frames the user may have written on one socket
MaxFrames == 3             \* frames the peer sends on one socket
MaxLength == 3             \* the nonzero value of options.length that is tried

Keys == {1, 2}             \* values of Crypto.randomBytes(16)
Urls == {1}                \* the url the user connects to
Types == {"text", "binary", "buffer"}
Payloads == {<<>>, <<97>>, <<97, 97, 97, 97>>, <<97, 97, 98, 98>>}

(* Program constants. *)
ReconnectDelay == 3000
Null == <<-1>>              \* null or undefined, where a Buffer, a list or a string is expected
Undefined == -1             \* undefined, where a number is expected
True == <<-2>>              \* the boolean true given as the reason of close()

----------------------------------------------------------------------------
(* Collaborators (crypto, zlib): what the handlers rely on. *)

\* base64(SHA1(key + GUID)): an injection of the key, never the key itself
Digest(key) == key + 100

RECURSIVE DeflateCodes(_)
\* raw deflate of p before the sync-flush trailer: a run of four equal bytes
\* becomes one byte, a run of two becomes one byte, the empty input is the
\* one byte 00 (an empty stored block), so inflating can outgrow the input
DeflateCodes(p) ==
    IF p = <<>> THEN <<>>
    ELSE IF Len(p) >= 4 /\ p[1] = p[2] /\ p[2] = p[3] /\ p[3] = p[4]
         THEN <<p[1] + 64>> \o DeflateCodes(SubSeq(p, 5, Len(p)))
    ELSE IF Len(p) >= 2 /\ p[1] = p[2]
         THEN <<p[1] + 32>> \o DeflateCodes(SubSeq(p, 3, Len(p)))
    ELSE <<p[1] + 16>> \o DeflateCodes(Tail(p))

WEBSOCKET_COMPRESS == <<0, 0, 255, 255>>

\* what deflate.write(p) followed by a sync flush emits
DeflateRaw(p) == (IF p = <<>> THEN <<0>> ELSE DeflateCodes(p)) \o WEBSOCKET_COMPRESS

\* the bytes of payloads
Letters == {97, 98}

\* a byte the inflate stream takes: of a block or of the trailer
IsDeflated(c) == c \in {0, 255} \/ c - 16 \in Letters \/ c - 32 \in Letters \/ c - 64 \in Letters

InflateByte(c) ==
    IF c - 64 \in Letters THEN <<c - 64, c - 64, c - 64, c - 64>>
    ELSE IF c - 32 \in Letters THEN <<c - 32, c - 32>>
    ELSE IF c - 16 \in Letters THEN <<c - 16>>
    ELSE <<>>

RECURSIVE InflateRaw(_)
\* what inflate.write(c) followed by a flush emits: byte by byte, so that a
\* message split into fragments inflates to the pieces of its payload
InflateRaw(c) == IF c = <<>> THEN <<>> ELSE InflateByte(c[1]) \o InflateRaw(Tail(c))

----------------------------------------------------------------------------
(* The machine. *)

Machine == [ws |-> ws, sock |-> sock, written |-> written, request |-> request,
            timers |-> timers, inflights |-> inflights, deflights |-> deflights,
            emitted |-> emitted, messages |-> messages, result |-> result]

Commit(m) ==
    /\ ws' = m.ws
    /\ sock' = m.sock
    /\ written' = m.written
    /\ request' = m.request
    /\ timers' = m.timers
    /\ inflights' = m.inflights
    /\ deflights' = m.deflights
    /\ emitted' = m.emitted
    /\ messages' = m.messages
    /\ result' = m.result

\* a handler is entered: nothing emitted, nothing returned yet
Enter(m) == [m EXCEPT !.emitted = <<>>, !.result = "none"]

Threw(m) == m.result = "TypeError"

Return(m, value) == IF Threw(m) THEN m ELSE [m EXCEPT !.result = value]

Event(name, args) == [name |-> name, args |-> args]

\* self.$events.x && self.emit(x, ...): every event has a subscriber
emit(m, name, args) ==
    [m EXCEPT !.emitted = Append(@, Event(name, args)),
              !.messages = IF name = "message" THEN Append(@, args[1]) ELSE @]

\* new WebSocketClient(), then the user's options
WebSocketClient(opts) ==
    [ws |-> [current |-> [buffer |-> <<>>, type |-> Undefined, type2 |-> Undefined,
                          final |-> FALSE, isMask |-> FALSE, mask |-> <<>>,
                          data |-> <<>>, length |-> 0, body |-> <<>>],
             reconnect |-> 0,
             closed |-> TRUE,
             isClosed |-> FALSE,
             _isClosed |-> FALSE,
             options |-> opts,
             url |-> <<"undefined", 0>>,
             socket |-> FALSE,
             req |-> FALSE,
             type |-> Undefined,
             inflate |-> FALSE, inflatepending |-> <<>>, inflatelock |-> FALSE,
             inflatechunks |-> Null,
             deflate |-> FALSE, deflatepending |-> <<>>, deflatelock |-> FALSE,
             deflatechunks |-> Null,
             closecode |-> Undefined, closemessage |-> Null,
             ping |-> FALSE],
     sock |-> [state |-> "none", listeners |-> FALSE],
     written |-> <<>>,
     request |-> [state |-> "none", key |-> 0, accept |-> 0,
                 url |-> <<"undefined", 0>>, target |-> 0],
     timers |-> 0,
     inflights |-> <<>>,
     deflights |-> <<>>,
     emitted |-> <<>>,
     messages |-> <<>>,
     result |-> "none"]

typebuffer(m) == m.ws.options.type = "buffer"
istext(m) == m.ws.options.type # "binary" /\ ~typebuffer(m)

\* socket.write(U.getWebSocketFrame(code, message, type, compress, mask)):
\* the frame is kept as the arguments it is built from
Frame(code, message, type, compress) ==
    [code |-> code, message |-> message, type |-> type, compress |-> compress]

socket_write(m, frame) ==
    IF ~m.ws.socket THEN [m EXCEPT !.result = "TypeError"]
    ELSE [m EXCEPT !.written = Append(@, frame)]

\* socket.end(frame): the frame is written and the socket half-closed
socket_end(m, frame) ==
    IF ~m.ws.socket THEN [m EXCEPT !.result = "TypeError"]
    ELSE [m EXCEPT !.written = Append(@, frame),
                   !.sock.state = IF @ = "open" THEN "ended" ELSE @]

socket_destroy(m) ==
    [m EXCEPT !.sock.state = IF @ \in {"open", "ended", "error"} THEN "destroyed" ELSE @]

free(m) ==
    LET m1 == IF m.ws.socket THEN socket_destroy(m) ELSE m
        m2 == [m1 EXCEPT !.ws.socket = FALSE]
        m3 == IF m2.ws.req /\ m2.request.state = "pending"
              THEN [m2 EXCEPT !.request.state = "aborted"] ELSE m2
    IN [m3 EXCEPT !.ws.req = FALSE]

\* the host the request goes to: the host of a url string; a parsed url has
\* no socket property, so the request has neither socketPath nor host
Target(url) == IF url[1] = "string" THEN url[2] ELSE 0

connect(m, url, key) ==
    [m EXCEPT !.ws.url = url,
              !.ws.req = TRUE,
              !.request = [state |-> "pending", key |-> key, accept |-> 0,
                           url |-> <<"object", url[2]>>, target |-> Target(url)]]

onclose(m) ==
    IF m.ws._isClosed THEN m
    ELSE LET m1 == [m EXCEPT !.ws.isClosed = TRUE, !.ws._isClosed = TRUE]
             m2 == IF m1.ws.inflate
                   THEN [m1 EXCEPT !.ws.inflate = FALSE, !.ws.inflatechunks = Null,
                                   !.inflights = [i \in DOMAIN @ |-> [@[i] EXCEPT !.live = FALSE]]]
                   ELSE m1
             m3 == IF m2.ws.deflate
                   THEN [m2 EXCEPT !.ws.deflate = FALSE, !.ws.deflatechunks = Null,
                                   !.deflights = [i \in DOMAIN @ |-> [@[i] EXCEPT !.live = FALSE]]]
                   ELSE m2
             m4 == emit(m3, "close", <<m3.ws.closecode, m3.ws.closemessage>>)
         IN IF m4.ws.socket THEN [m4 EXCEPT !.sock.listeners = FALSE] ELSE m4

onerror(m, err) ==
    LET m1 == emit(m, "error", <<err>>)
    IN IF ~m1.ws.isClosed THEN onclose([m1 EXCEPT !.ws.isClosed = TRUE]) ELSE m1

websocket_close(m) ==
    LET m1 == onclose([m EXCEPT !.ws.closed = TRUE])
    IN IF m1.ws.options.reconnect # 0 THEN [m1 EXCEPT !.timers = @ + 1] ELSE m1

\* a reconnect counter that is not counted up
Same(n) == n

\* ws.reconnect++
Increment(n) == n + 1

reconnect_timer(m, key) ==
    LET m1 == [m EXCEPT !.timers = @ - 1,
                        !.ws.isClosed = FALSE,
                        !.ws._isClosed = FALSE,
                        !.ws.reconnect = Increment(@)]
    IN connect(m1, m1.ws.url, key)

close(m, message, code) ==
    LET m1 == IF message # True THEN [m EXCEPT !.ws.options.reconnect = 0] ELSE m
        msg == IF message \in {True, Null} THEN <<>> ELSE message
    IN IF ~m1.ws.isClosed
       THEN socket_end([m1 EXCEPT !.ws.isClosed = TRUE],
                       Frame(IF code = Undefined THEN 1000 ELSE code, msg, 8, FALSE))
       ELSE m1

sendDeflate(m) ==
    IF m.ws.deflatelock \/ m.ws.deflatepending = <<>> THEN m
    ELSE LET m1 == [m EXCEPT !.ws.deflatepending = Tail(@),
                             !.ws.deflatechunks = <<>>,
                             !.ws.deflatelock = TRUE]
         IN IF ~m1.ws.deflate THEN [m1 EXCEPT !.result = "TypeError"]
            ELSE [m1 EXCEPT !.deflights =
                      Append(@, [buf |-> Head(m.ws.deflatepending), live |-> TRUE])]

\* the deflate stream emits its output (websocket_deflate), then the callback
\* of flush runs
deflate_flushed(m) ==
    LET f == Head(m.deflights)
        m1 == [m EXCEPT !.deflights = Tail(@)]
        m2 == IF ~f.live THEN m1
              ELSE IF m1.ws.deflatechunks = Null THEN [m1 EXCEPT !.result = "TypeError"]
              ELSE [m1 EXCEPT !.ws.deflatechunks = @ \o DeflateRaw(f.buf)]
    IN IF Threw(m2) \/ m2.ws.deflatechunks = Null THEN m2
       ELSE LET chunks == m2.ws.deflatechunks
                data == SubSeq(chunks, 1, Len(chunks) - 4)
                m3 == [m2 EXCEPT !.ws.deflatelock = FALSE, !.ws.deflatechunks = Null]
                m4 == socket_write(m3, Frame(0, data, IF m3.ws.type = 1 THEN 2 ELSE 1, TRUE))
            IN IF Threw(m4) THEN m4 ELSE sendDeflate(m4)

send(m, message) ==
    IF m.ws.isClosed \/ m.ws.closed THEN Return(m, "false")
    ELSE IF istext(m)
         THEN Return(IF m.ws.deflate
                     THEN sendDeflate([m EXCEPT !.ws.deflatepending = Append(@, message)])
                     ELSE socket_write(m, Frame(0, message, 1, FALSE)),
                     "true")
    ELSE IF message # <<>>
         THEN Return(IF m.ws.deflate
                     THEN sendDeflate([m EXCEPT !.ws.deflatepending = Append(@, message)])
                     ELSE socket_write(m, Frame(0, message, 2, FALSE)),
                     "true")
    ELSE Return(m, "true")

----------------------------------------------------------------------------
(* Receiving: the parser, the dispatch by opcode, the decoder, inflate. *)

\* the UTF-8 bytes of 'Frame is too large'
FrameIsTooLarge ==
    <<70, 114, 97, 109, 101, 32, 105, 115, 32, 116, 111, 111, 32, 108, 97, 114, 103, 101>>

RECURSIVE Xor(_, _)
\* a ^ b of two bytes
Xor(a, b) ==
    IF a = 0 THEN b ELSE IF b = 0 THEN a
    ELSE (((a % 2) + (b % 2)) % 2) + 2 * Xor(a \div 2, b \div 2)

\* buf[i] ^ mask[i % 4], for every i
Masked(buf, mask) == [i \in 1..Len(buf) |-> Xor(buf[i], mask[((i - 1) % 4) + 1])]

\* U.getMessageLength(buffer): the payload length a frame header announces,
\* -1 while the bytes of an extended length have not arrived
getMessageLength(buffer) ==
    LET length == buffer[2] % 128
    IN IF length = 126
       THEN IF Len(buffer) < 4 THEN -1 ELSE buffer[3] * 256 + buffer[4]
       ELSE IF length = 127
       THEN IF Len(buffer) < 10 THEN -1
            ELSE ((buffer[7] * 256 + buffer[8]) * 256 + buffer[9]) * 256 + buffer[10]
       ELSE length

\* Buffer.toString(ENCODING) and a Buffer, as message events carry them
String(bytes) == [kind |-> "string", bytes |-> bytes]
Buffer(bytes) == [kind |-> "buffer", bytes |-> bytes]

\* $parse: the machine after it, and whether it returned true
parse(m) ==
    LET buffer == m.ws.current.buffer
    IN IF Len(buffer) <= 2 THEN [m |-> m, ok |-> FALSE]
       ELSE
       LET type == buffer[1] % 16
           final == (buffer[1] \div 128) = 1
           isMask == (buffer[2] \div 128) = 1
           m1 == [m EXCEPT !.ws.current.type = type,
                           !.ws.current.final = final,
                           !.ws.current.isMask = isMask]
           length == getMessageLength(buffer)
           len7 == buffer[2] % 128
           index == (IF len7 = 126 THEN 4 ELSE IF len7 = 127 THEN 10 ELSE 2)
                    + (IF isMask THEN 4 ELSE 0)
           mlength == index + length
       IN IF length <= 0 THEN [m |-> m1, ok |-> FALSE]
          ELSE IF m1.ws.options.length # 0 /\ mlength > m1.ws.options.length
          THEN [m |-> close(m1, FrameIsTooLarge, 1009), ok |-> FALSE]
          ELSE IF Len(buffer) < mlength THEN [m |-> m1, ok |-> FALSE]
          ELSE
          LET m2 == [m1 EXCEPT !.ws.current.length = mlength]
              mask == SubSeq(buffer, index - 3, index)
              m3 == IF isMask THEN [m2 EXCEPT !.ws.current.mask = mask] ELSE m2
              buf == SubSeq(buffer, index + 1, mlength)
          IN IF type # 9 /\ type # 10
             THEN IF m3.ws.inflate
                  THEN [m |-> [m3 EXCEPT !.ws.inflatepending =
                                  Append(@, [buf |-> IF isMask THEN Masked(buf, mask) ELSE buf,
                                             continue |-> ~final])],
                        ok |-> TRUE]
                  ELSE [m |-> [m3 EXCEPT !.ws.current.data = buf], ok |-> TRUE]
             ELSE [m |-> m2, ok |-> TRUE]

\* $decode
decode(m) ==
    LET data == m.ws.current.body
    IN IF typebuffer(m) THEN emit(m, "message", <<Buffer(data)>>)
       ELSE IF m.ws.options.type \in {"binary", "buffer"}
            THEN [emit(m, "message", <<Buffer(data)>>) EXCEPT !.ws.current.body = <<>>]
       ELSE [emit(m, "message", <<String(data)>>) EXCEPT !.ws.current.body = <<>>]

parseInflate(m) ==
    IF m.ws.inflatelock \/ m.ws.inflatepending = <<>> THEN m
    ELSE LET buf == Head(m.ws.inflatepending)
             m1 == [m EXCEPT !.ws.inflatepending = Tail(@),
                             !.ws.inflatechunks = <<>>,
                             !.ws.inflatelock = TRUE]
         IN IF ~m1.ws.inflate THEN [m1 EXCEPT !.result = "TypeError"]
            ELSE [m1 EXCEPT !.inflights =
                      Append(@, [buf |-> buf.buf \o (IF buf.continue THEN <<>>
                                                     ELSE WEBSOCKET_COMPRESS),
                                 continue |-> buf.continue, live |-> TRUE])]

\* the inflate stream emits its output (websocket_inflate), then the callback
\* of flush runs; a stream that was given bytes that are no deflate data
\* reports to F.error() and emits nothing, and its callback may not be called
inflate_flushed(m, called) ==
    LET f == Head(m.inflights)
        m1 == [m EXCEPT !.inflights = Tail(@)]
        m2 == IF ~f.live THEN m1
              ELSE IF m1.ws.inflatechunks = Null THEN [m1 EXCEPT !.result = "TypeError"]
              ELSE [m1 EXCEPT !.ws.inflatechunks = @ \o InflateRaw(f.buf)]
    IN IF Threw(m2) \/ ~called \/ m2.ws.inflatechunks = Null THEN m2
       ELSE LET data == m2.ws.inflatechunks
                m3 == [m2 EXCEPT !.ws.inflatechunks = Null, !.ws.inflatelock = FALSE]
            IN IF m3.ws.options.length # 0 /\ Len(data) > m3.ws.options.length
               THEN close(m3, FrameIsTooLarge, 1009)
               ELSE LET m4 == [m3 EXCEPT !.ws.current.body = @ \o data]
                    IN parseInflate(IF f.continue THEN m4 ELSE decode(m4))

\* the cases of the switch of $ondata
dispatch(m, type) ==
    LET current == m.ws.current
    IN IF type \in {1, 2}
       THEN IF m.ws.inflate
            THEN IF current.final THEN parseInflate(m) ELSE m
            ELSE LET m1 == [m EXCEPT !.ws.current.body = @ \o current.data]
                 IN IF current.final THEN decode(m1) ELSE m1
       ELSE IF type = 8
       THEN close([m EXCEPT !.ws.closemessage = SubSeq(current.buffer, 5, Len(current.buffer)),
                            !.ws.closecode =
                                current.buffer[3] * 256
                                + (IF Len(current.buffer) >= 4 THEN current.buffer[4] ELSE 0)],
                  Null, Undefined)
       ELSE IF type = 9
       THEN LET m1 == socket_write(m, Frame(0, <<80, 79, 78, 71>>, 10, FALSE))
            IN IF Threw(m1) THEN m1
               ELSE [m1 EXCEPT !.ws.current.buffer = <<>>, !.ws.ping = TRUE]
       ELSE IF type = 10
       THEN [m EXCEPT !.ws.ping = TRUE, !.ws.current.buffer = <<>>]
       ELSE m

RECURSIVE ondata(_, _)
\* $ondata(data); $ondata() is ondata(m, <<>>)
ondata(m, data) ==
    IF m.ws.isClosed THEN m
    ELSE
    LET p == parse([m EXCEPT !.ws.current.buffer = @ \o data])
        current == p.m.ws.current
        m1 == IF ~current.final /\ current.type # 0
              THEN [p.m EXCEPT !.ws.current.type2 = current.type] ELSE p.m
        m2 == dispatch(m1, IF current.type = 0 THEN m1.ws.current.type2 ELSE current.type)
        m3 == [m2 EXCEPT !.ws.current.buffer = SubSeq(@, m2.ws.current.length + 1, Len(@))]
    IN IF ~p.ok THEN p.m
       ELSE IF Threw(m2) \/ m2.ws.current.buffer = <<>> THEN m2
       ELSE IF m3.ws.current.buffer # <<>> THEN ondata(m3, <<>>)
       ELSE m3

\* an accept header that is never compared
NeverInvalid(accept, key) == FALSE

\* response.headers['sec-websocket-accept'] !== digest
InvalidServerKey(accept, key) == accept # Digest(key)

request_error(m) ==
    emit([m EXCEPT !.request.state = "failed"], "error", <<"request error">>)

request_response(m, key) ==
    LET m1 == emit([m EXCEPT !.request.state = "responded"],
                   "error", <<"Unexpected server response.">>)
    IN IF m1.ws.options.reconnectserver
       THEN connect(m1, m.request.url, key)
       ELSE free(m1)

\* the server switched protocols: accept is its Sec-WebSocket-Accept, deflate
\* whether its Sec-WebSocket-Extensions names -deflate
request_upgrade(m, accept, deflate) ==
    LET m1 == [m EXCEPT !.request.state = "upgraded",
                        !.request.accept = accept,
                        !.ws.socket = TRUE,
                        !.sock = [state |-> "open", listeners |-> FALSE],
                        !.written = <<>>,
                        !.messages = <<>>]
        compress == m.ws.options.compress /\ deflate
    IN IF InvalidServerKey(accept, m.request.key)
       THEN free(emit([socket_destroy(m1) EXCEPT !.ws.closed = TRUE],
                      "error", <<"Invalid server key.">>))
       ELSE LET m2 == [m1 EXCEPT !.ws.closed = FALSE, !.sock.listeners = TRUE]
                m3 == IF compress
                      THEN [m2 EXCEPT !.ws.inflatepending = <<>>,
                                      !.ws.inflatelock = FALSE,
                                      !.ws.inflate = TRUE,
                                      !.ws.deflatepending = <<>>,
                                      !.ws.deflatelock = FALSE,
                                      !.ws.deflate = TRUE]
                      ELSE m2
            IN emit(m3, "open", <<>>)

----------------------------------------------------------------------------
(* The peer and the socket, before any frame is sent. *)

NoPeer == [stream |-> <<>>, sent |-> <<>>, rest |-> <<>>, payload |-> <<>>,
           mid |-> FALSE, frames |-> 0, pings |-> 0, close |-> Null, compress |-> FALSE]

\* the options the user sets before connect; the life cycle does not read
\* options.length, and reads options.type only to tell text from binary
Options == [type : {"text", "binary"}, compress : BOOLEAN, reconnect : {0, ReconnectDelay},
            length : {0}, reconnectserver : BOOLEAN]

Is(m) ==
    /\ ws = m.ws
    /\ sock = m.sock
    /\ written = m.written
    /\ request = m.request
    /\ timers = m.timers
    /\ inflights = m.inflights
    /\ deflights = m.deflights
    /\ emitted = m.emitted
    /\ messages = m.messages
    /\ result = m.result

Init ==
    /\ \E opts \in Options : Is(WebSocketClient(opts))
    /\ wire = <<>>
    /\ peer = NoPeer

----------------------------------------------------------------------------
(* The life cycle: the user's calls, the request's and the socket's events,  *)
(* the reconnect timer.                                                      *)

\* the user connects, once
Connect ==
    /\ ws.url[1] = "undefined"
    /\ \E u \in Urls, key \in Keys : Commit(connect(Enter(Machine), <<"string", u>>, key))
    /\ UNCHANGED <<wire, peer>>

RequestError ==
    /\ request.state = "pending"
    /\ Commit(request_error(Enter(Machine)))
    /\ UNCHANGED <<wire, peer>>

RequestResponse ==
    /\ request.state = "pending"
    /\ \E key \in Keys : Commit(request_response(Enter(Machine), key))
    /\ UNCHANGED <<wire, peer>>

RequestUpgrade ==
    /\ request.state = "pending"
    /\ \E accept \in {Digest(k) : k \in Keys}, deflate \in BOOLEAN :
          Commit(request_upgrade(Enter(Machine), accept, deflate))
    /\ wire' = <<>>
    /\ peer' = NoPeer

\* 'close' or 'end' of the socket, while websocket_close listens
SocketClose ==
    /\ sock.listeners
    /\ sock.state \in {"open", "ended", "destroyed", "error"}
    /\ Commit(websocket_close([Enter(Machine) EXCEPT !.sock.state = "closed"]))
    /\ UNCHANGED <<wire, peer>>

\* 'error' of the socket, while websocket_onerror listens
SocketError ==
    /\ sock.listeners
    /\ sock.state \in {"open", "ended"}
    /\ Commit(onerror([Enter(Machine) EXCEPT !.sock.state = "error"], "socket error"))
    /\ UNCHANGED <<wire, peer>>

ReconnectTimer ==
    /\ timers > 0
    /\ ws.reconnect < MaxReconnect
    /\ \E key \in Keys : Commit(reconnect_timer(Enter(Machine), key))
    /\ UNCHANGED <<wire, peer>>

Send ==
    /\ Len(written) + Len(ws.deflatepending) + Len(deflights) < MaxWritten
    /\ \E message \in {<<>>, <<97>>} : Commit(send(Enter(Machine), message))
    /\ UNCHANGED <<wire, peer>>

Close ==
    /\ \E message \in {True, Null, <<98>>} :
          Commit(close(Enter(Machine), message, Undefined))
    /\ UNCHANGED <<wire, peer>>

Free ==
    /\ Commit(free(Enter(Machine)))
    /\ UNCHANGED <<wire, peer>>

DeflateFlushed ==
    /\ deflights # <<>>
    /\ Commit(deflate_flushed(Enter(Machine)))
    /\ UNCHANGED <<wire, peer>>

Next ==
    \/ Connect
    \/ RequestError
    \/ RequestResponse
    \/ RequestUpgrade
    \/ SocketClose
    \/ SocketError
    \/ ReconnectTimer
    \/ Send
    \/ Close
    \/ Free
    \/ DeflateFlushed

Spec == Init /\ [][Next]_vars

----------------------------------------------------------------------------
(* One open socket: the peer sends frames, the socket delivers their bytes   *)
(* in chunks, the inflate stream flushes.                                    *)

\* a frame on the wire (RFC 6455): FIN, RSV1, opcode, MASK, length, mask, payload
EncodeFrame(fin, rsv1, opcode, mask, payload) ==
    <<(IF fin THEN 128 ELSE 0) + (IF rsv1 THEN 64 ELSE 0) + opcode>>
    \o (IF Len(payload) < 126
        THEN <<(IF mask # <<>> THEN 128 ELSE 0) + Len(payload)>>
        ELSE <<(IF mask # <<>> THEN 128 ELSE 0) + 126,
               Len(payload) \div 256, Len(payload) % 256>>)
    \o mask
    \o (IF mask # <<>> THEN Masked(payload, mask) ELSE payload)

\* the payload of a message as the peer puts it into frames
OnWire(payload, compress) ==
    IF compress
    THEN LET raw == DeflateRaw(payload) IN SubSeq(raw, 1, Len(raw) - 4)
    ELSE payload

\* options for one open socket: no reconnect follows
DataOptions == [type : Types, compress : BOOLEAN, reconnect : {0},
                length : {0, MaxLength}, reconnectserver : {FALSE}]

InitData ==
    /\ \E opts \in DataOptions :
          /\ Is(request_upgrade(connect(WebSocketClient(opts), <<"string", 1>>, 1),
                                Digest(1), TRUE))
          /\ peer = [NoPeer EXCEPT !.compress = opts.compress]
    /\ wire = <<>>

PeerAlive == sock.state \in {"open", "ended"} /\ peer.frames < MaxFrames /\ peer.close = Null

\* the peer begins a message: its first frame, final when it holds it whole
PeerMessage ==
    /\ PeerAlive
    /\ ~peer.mid
    /\ \E payload \in Payloads :
          LET bytes == OnWire(payload, peer.compress)
          IN \E k \in 0..Len(bytes) :
                LET frame == EncodeFrame(k = Len(bytes), peer.compress,
                                         IF ws.options.type = "text" THEN 1 ELSE 2,
                                         <<>>, SubSeq(bytes, 1, k))
                IN /\ wire' = wire \o frame
                   /\ peer' = [peer EXCEPT !.stream = @ \o frame,
                                           !.frames = @ + 1,
                                           !.mid = k < Len(bytes),
                                           !.rest = SubSeq(bytes, k + 1, Len(bytes)),
                                           !.sent = IF k = Len(bytes) THEN Append(@, payload) ELSE @,
                                           !.payload = payload]
    /\ UNCHANGED <<ws, sock, written, request, timers, inflights, deflights, emitted,
                   messages, result>>

\* the peer continues the message it began
PeerContinuation ==
    /\ PeerAlive
    /\ peer.mid
    /\ \E k \in 1..Len(peer.rest) :
          LET frame == EncodeFrame(k = Len(peer.rest), FALSE, 0, <<>>, SubSeq(peer.rest, 1, k))
          IN /\ wire' = wire \o frame
             /\ peer' = [peer EXCEPT !.stream = @ \o frame,
                                     !.frames = @ + 1,
                                     !.mid = k < Len(peer.rest),
                                     !.rest = SubSeq(peer.rest, k + 1, Len(peer.rest)),
                                     !.sent = IF k = Len(peer.rest) THEN Append(@, peer.payload) ELSE @]
    /\ UNCHANGED <<ws, sock, written, request, timers, inflights, deflights, emitted,
                   messages, result>>

\* the peer sends a ping or a pong, between any two frames
PeerPing ==
    /\ PeerAlive
    /\ \E opcode \in {9, 10}, payload \in {<<>>, <<120>>} :
          LET frame == EncodeFrame(TRUE, FALSE, opcode, <<>>, payload)
          IN /\ wire' = wire \o frame
             /\ peer' = [peer EXCEPT !.stream = @ \o frame,
                                     !.frames = @ + 1,
                                     !.pings = @ + (IF opcode = 9 THEN 1 ELSE 0)]
    /\ UNCHANGED <<ws, sock, written, request, timers, inflights, deflights, emitted,
                   messages, result>>

\* the peer sends a close frame, and nothing after it
PeerClose ==
    /\ PeerAlive
    /\ \E payload \in {<<>>, <<3, 232>>, <<3, 233, 98>>} :
          LET frame == EncodeFrame(TRUE, FALSE, 8, <<>>, payload)
          IN /\ wire' = wire \o frame
             /\ peer' = [peer EXCEPT !.stream = @ \o frame,
                                     !.frames = @ + 1,
                                     !.close = payload]
    /\ UNCHANGED <<ws, sock, written, request, timers, inflights, deflights, emitted,
                   messages, result>>

\* 'data' of the socket, while websocket_ondata listens: any chunk of what
\* the peer has sent
SocketData ==
    /\ sock.listeners
    /\ sock.state \in {"open", "ended"}
    /\ \E n \in 1..Len(wire) :
          /\ Commit(ondata(Enter(Machine), SubSeq(wire, 1, n)))
          /\ wire' = SubSeq(wire, n + 1, Len(wire))
    /\ UNCHANGED peer

InflateFlushed ==
    /\ inflights # <<>>
    /\ \E called \in {TRUE} \cup {\A i \in DOMAIN inflights[1].buf : IsDeflated(inflights[1].buf[i])} :
          Commit(inflate_flushed(Enter(Machine), called))
    /\ UNCHANGED <<wire, peer>>

\* the peer closes the socket that the client has ended
SocketClosed ==
    /\ sock.state = "ended"
    /\ SocketClose

NextData ==
    \/ PeerMessage
    \/ PeerContinuation
    \/ PeerPing
    \/ PeerClose
    \/ SocketData
    \/ InflateFlushed
    \/ SocketClosed

SpecData == InitData /\ [][NextData]_vars

----------------------------------------------------------------------------
(* The states of the life cycle, told from the socket and the request. *)

\* the socket of a successful Upgrade, bound, listened to, neither ended
\* locally nor closed, destroyed or failed
Open == ws.socket /\ sock.listeners /\ sock.state = "open"

Connecting == request.state = "pending"

\* the socket has been destroyed or has failed and its 'close' is still to come
ClosePending == sock.listeners /\ sock.state \in {"destroyed", "error"}

Closed == ~Connecting /\ sock.state \notin {"open", "ended"} /\ ~ClosePending

Connected == ws.url[1] # "undefined"

----------------------------------------------------------------------------
(* C1: send in a state other than Open returns false, writes nothing to    *)
(* the socket, enqueues nothing into the deflate queue, starts no deflate  *)
(* flush and does not raise.                                               *)
C1_SendWhenNotOpen ==
    [][(~Open /\ Send) =>
          /\ result' = "false"
          /\ written' = written
          /\ ws'.deflatepending = ws.deflatepending
          /\ deflights' = deflights]_vars

(* C2: once reconnect is disabled (options.reconnect is 0, where           *)
(* close(reason other than true) puts it), no reconnect timer re-enters    *)
(* connect; close(true) leaves options.reconnect as it is.                 *)
C2_NoReconnectAfterClose ==
    [][/\ ws.options.reconnect = 0 => ~ReconnectTimer
       /\ (Close /\ ws'.options.reconnect # ws.options.reconnect)
             => ws'.options.reconnect = 0]_vars

(* C3: whenever the connection is Closed after connect was called, with a  *)
(* nonzero options.reconnect, a reconnect timer is scheduled.              *)
C3_ClosedSchedulesReconnect ==
    (Connected /\ Closed /\ ws.options.reconnect # 0) => timers > 0

(* C4: the reconnect counter starts at 0, goes up by exactly 1 when a      *)
(* reconnect timer fires and is left as it is by every other step          *)
(* (Upgrade, close and free among them).                                   *)
C4_ReconnectCounter ==
    /\ ws.reconnect = 0
    /\ [][ws'.reconnect = ws.reconnect + (IF timers' < timers THEN 1 ELSE 0)]_vars

\* two reconnection cycles done and the third socket open
C4_Witness == ws.reconnect = 2 /\ Open /\ ~ws.closed

(* C6: an Upgrade opens the connection and emits open exactly when its     *)
(* Sec-WebSocket-Accept is the digest of the key of the connect that made  *)
(* the request; otherwise the socket is destroyed and unbound, the request *)
(* dropped, an error emitted, no listener attached and open not emitted;   *)
(* and no other step opens the connection or emits open.                   *)
Upgraded == request.state = "pending" /\ request'.state = "upgraded"

Emitted(es, name) == \E i \in DOMAIN es : es[i].name = name

C6_OpenOnlyOnValidAccept ==
    [][/\ (Upgraded /\ request'.accept = Digest(request.key)) =>
             /\ Emitted(emitted', "open")
             /\ ~ws'.closed /\ ws'.socket /\ sock'.listeners /\ sock'.state = "open"
       /\ (Upgraded /\ request'.accept # Digest(request.key)) =>
             /\ ~Emitted(emitted', "open")
             /\ Emitted(emitted', "error")
             /\ ws'.closed /\ ~ws'.socket /\ ~ws'.req
             /\ ~sock'.listeners /\ sock'.state = "destroyed"
       /\ ~Upgraded =>
             /\ ~Emitted(emitted', "open")
             /\ ws.closed => ws'.closed
             /\ ~sock.listeners => ~sock'.listeners]_vars

\* a reconnect whose Upgrade carried the digest of another key
C6_Witness ==
    /\ ws.reconnect > 0
    /\ request.state = "upgraded"
    /\ request.accept # Digest(request.key)
    /\ sock.state = "destroyed"
    /\ Emitted(emitted, "error")


----------------------------------------------------------------------------
(* What one open socket should have done with what the peer sent. *)

\* the message event of a payload, by options.type
MessageOf(payload) == IF ws.options.type = "text" THEN String(payload) ELSE Buffer(payload)

\* every byte the peer sent has been delivered and every flush has run, on a
\* socket that is open and listened to
Delivered == Open /\ wire = <<>> /\ inflights = <<>>

(* C5: the message events are the payloads of the peer's complete          *)
(* messages, in wire order: the i-th event carries the i-th payload, and   *)
(* once everything sent is delivered there is an event for every message.  *)
C5_MessagesInWireOrder ==
    /\ Len(messages) <= Len(peer.sent)
    /\ \A i \in 1..Len(messages) :
          i <= Len(peer.sent) => messages[i] = MessageOf(peer.sent[i])
    /\ (Delivered /\ ~ws.isClosed) => Len(messages) = Len(peer.sent)

Pongs == {i \in DOMAIN written : written[i] = Frame(0, <<80, 79, 78, 71>>, 10, FALSE)}

(* C7: once the pings the peer sent (payloads of 0 and 1 bytes) are        *)
(* delivered on an open connection, one pong with the payload PONG has     *)
(* been written for each and the liveness flag is set.                     *)
C7_PingAnswered ==
    (Delivered /\ ~ws.isClosed /\ peer.pings > 0) =>
        (Cardinality(Pongs) = peer.pings /\ ws.ping)

\* the status code and the reason of the close frame the peer sent
CloseCode == IF peer.close = <<>> THEN 1000 ELSE peer.close[1] * 256 + peer.close[2]
CloseReason == SubSeq(peer.close, 3, Len(peer.close))

(* C8: once the close frame of the peer is delivered on an open            *)
(* connection the client has begun its close (a close frame written, the   *)
(* socket ended), and the close event at the closing of the socket carries *)
(* the code and the reason of the frame: 1000 and "" for an empty payload. *)
C8_CloseFrameClosesWithCode ==
    (ws.options.length = 0 /\ peer.close # Null) =>
        /\ (wire = <<>> /\ sock.state # "closed") =>
              /\ ws.isClosed
              /\ sock.state = "ended"
              /\ written # <<>> /\ written[Len(written)].type = 8
        /\ sock.state = "closed" =>
              emitted = <<Event("close", <<CloseCode, CloseReason>>)>>

(* C9: with compression and a nonzero options.length, no message whose     *)
(* inflated payload is larger than options.length is delivered.            *)
C9_NoInflatedMessageOverLength ==
    (ws.options.length # 0 /\ peer.compress) =>
        \A i \in DOMAIN messages : Len(messages[i].bytes) <= ws.options.length

\* the machine as the Upgrade of this socket left it
AtOpen ==
    request_upgrade(connect(WebSocketClient(ws.options), <<"string", 1>>, 1), Digest(1), TRUE)

RECURSIVE Flushed(_)
\* every inflate flush in flight has run
Flushed(m) == IF m.inflights = <<>> \/ Threw(m) THEN m ELSE Flushed(inflate_flushed(m, TRUE))

\* the message events of a socket that is fed the chunks one after another
RECURSIVE Fed(_, _)
Fed(m, chunks) ==
    IF chunks = <<>> THEN m.messages
    ELSE Fed(Flushed(ondata(m, Head(chunks))), Tail(chunks))

(* C10: without compression, the byte stream of the frames the peer sent,  *)
(* fed in two chunks split at any offset, gives the message events it      *)
(* gives fed as one chunk.                                                 *)
C10_SplitStreamSameMessages ==
    ~peer.compress =>
    \A k \in 1..(Len(peer.stream) - 1) :
        Fed(AtOpen, <<SubSeq(peer.stream, 1, k),
                      SubSeq(peer.stream, k + 1, Len(peer.stream))>>)
        = Fed(AtOpen, <<peer.stream>>)

----------------------------------------------------------------------------
(* The frames of the stream the peer sent, read back from its bytes. *)

RECURSIVE FramesOf(_)
\* the FIN bit, the opcode, the payload length and the payload bytes (as they
\* are on the wire) of every frame of a stream
FramesOf(stream) ==
    IF Len(stream) < 2 THEN <<>>
    ELSE LET len7 == stream[2] % 128
             index == (IF len7 = 126 THEN 4 ELSE 2) + (IF stream[2] >= 128 THEN 4 ELSE 0)
             length == IF len7 = 126 THEN stream[3] * 256 + stream[4] ELSE len7
         IN <<[fin |-> stream[1] >= 128, opcode |-> stream[1] % 16, length |-> length,
               payload |-> SubSeq(stream, index + 1, index + length)]>>
            \o FramesOf(SubSeq(stream, index + length + 1, Len(stream)))

\* every frame the peer sent carries at least one byte
NoEmptyFrame == \A i \in DOMAIN FramesOf(peer.stream) : FramesOf(peer.stream)[i].length > 0

\* the last frame the peer sent is the final fragment of a fragmented message
LastIsFinalFragment ==
    LET frames == FramesOf(peer.stream)
    IN frames # <<>> /\ frames[Len(frames)].opcode = 0 /\ frames[Len(frames)].fin

(* C11: a message sent in fragments (opcodes o, 0, ..., 0, FIN on the last, *)
(* every part non-empty) gives no message event before its final fragment  *)
(* and, once the final fragment is delivered, exactly one event, whose     *)
(* body is the whole payload.                                              *)
C11_FragmentsReassembled ==
    (ws.options.length = 0 /\ NoEmptyFrame) =>
        /\ peer.mid => Len(messages) <= Len(peer.sent)
        /\ (Delivered /\ ~ws.isClosed /\ LastIsFinalFragment) =>
              /\ Len(messages) = Len(peer.sent)
              /\ messages[Len(messages)] = MessageOf(peer.payload)

----------------------------------------------------------------------------
(* One frame: the peer encodes one unfragmented data frame, masked or not,  *)
(* and the client parses it.                                                *)

MaxPayload == 126          \* the longest payload: the first with a 16-bit length

Masks == {<<>>, <<1, 2, 3, 4>>}

\* payloads of the 7-bit and of the 16-bit length encoding
FramePayloads == {<<>>, <<97>>, <<97, 98>>, [i \in 1..MaxPayload |-> 97]}

FrameOptions == [type : Types, compress : BOOLEAN, reconnect : {0},
                 length : {0}, reconnectserver : {FALSE}]

InitFrame ==
    /\ \E opts \in FrameOptions :
          /\ Is(request_upgrade(connect(WebSocketClient(opts), <<"string", 1>>, 1),
                                Digest(1), TRUE))
          /\ peer = [NoPeer EXCEPT !.compress = opts.compress]
    /\ wire = <<>>

\* the peer sends its one frame: a whole message of opcode 1 or 2
PeerFrame ==
    /\ peer.frames = 0
    /\ \E opcode \in {1, 2}, payload \in FramePayloads, mask \in Masks :
          LET frame == EncodeFrame(TRUE, peer.compress, opcode, mask,
                                   OnWire(payload, peer.compress))
          IN /\ wire' = frame
             /\ peer' = [peer EXCEPT !.stream = frame,
                                     !.frames = 1,
                                     !.sent = <<payload>>,
                                     !.payload = payload]
    /\ UNCHANGED <<ws, sock, written, request, timers, inflights, deflights, emitted,
                   messages, result>>

NextFrame ==
    \/ PeerFrame
    \/ SocketData
    \/ InflateFlushed

SpecFrame == InitFrame /\ [][NextFrame]_vars

(* C12: once the one frame the peer encoded (opcode 1 or 2, any payload,   *)
(* masked or not, with or without compression) is delivered, the parser    *)
(* has read a final frame of that opcode and one message event carries the *)
(* payload, un-masked.                                                     *)
C12_FrameRoundTrip ==
    (peer.frames = 1 /\ Delivered) =>
        /\ ws.current.final
        /\ ws.current.type = FramesOf(peer.stream)[1].opcode
        /\ messages = <<MessageOf(peer.payload)>>

(* C13: right after a message is delivered (its event is the last thing    *)
(* the handler did, every byte sent is consumed and the peer is not in the *)
(* middle of a message) the in-progress body is empty.                     *)
C13_BodyEmptyAfterDelivery ==
    (/\ wire = <<>>
     /\ ws.current.buffer = <<>>
     /\ ~peer.mid
     /\ emitted # <<>>
     /\ emitted[Len(emitted)].name = "message") => ws.current.body = <<>>

(* C14: a connection that is Closed holds no socket and no inflate or      *)
(* deflate context.                                                        *)
C14_ClosedHoldsNothing ==
    Closed => (~ws.socket /\ ~ws.inflate /\ ~ws.deflate)

\* the flushes in flight on the context the connection holds now
Live(flights) == {i \in DOMAIN flights : flights[i].live}

(* C15: with compression, at most one flush is in flight on the inflate     *)
(* context and at most one on the deflate context, and while one is in      *)
(* flight the lock of its direction is held, so that no other can start.    *)
C15_OneFlushInFlight ==
    /\ Cardinality(Live(deflights)) <= 1
    /\ Cardinality(Live(inflights)) <= 1
    /\ (ws.deflate /\ Live(deflights) # {}) => ws.deflatelock
    /\ (ws.inflate /\ Live(inflights) # {}) => ws.inflatelock

----------------------------------------------------------------------------
(* Sockets in succession: the peer sends data frames, the socket delivers   *)
(* them and closes, the reconnect timer fires, the next Upgrade follows.    *)

SessionOptions == [type : Types, compress : {FALSE}, reconnect : {ReconnectDelay},
                   length : {0}, reconnectserver : {FALSE}]

InitSession ==
    /\ \E opts \in SessionOptions :
          Is(request_upgrade(connect(WebSocketClient(opts), <<"string", 1>>, 1),
                             Digest(1), FALSE))
    /\ peer = NoPeer
    /\ wire = <<>>

\* the peer sends the one frame it sends on this socket: a whole message or
\* the first fragment of one
PeerData ==
    /\ sock.state = "open"
    /\ peer.frames = 0
    /\ \E payload \in Payloads, fin \in BOOLEAN :
          LET frame == EncodeFrame(fin, FALSE, IF ws.options.type = "text" THEN 1 ELSE 2,
                                   <<>>, payload)
          IN /\ wire' = frame
             /\ peer' = [peer EXCEPT !.stream = frame,
                                     !.frames = 1,
                                     !.mid = ~fin,
                                     !.sent = IF fin THEN <<payload>> ELSE <<>>,
                                     !.payload = payload]
    /\ UNCHANGED <<ws, sock, written, request, timers, inflights, deflights, emitted,
                   messages, result>>

NextSession ==
    \/ PeerData
    \/ SocketData
    \/ SocketClose
    \/ ReconnectTimer
    \/ RequestUpgrade

SpecSession == InitSession /\ [][NextSession]_vars

\* the per-socket state of a connection that has had no socket yet
Fresh == WebSocketClient(ws.options).ws

(* C16: when the Upgrade of a reconnect opens the connection, the receive  *)
(* accumulator (unconsumed buffer, in-progress body, opcode of the message *)
(* in progress), both compression queues and both locks are as they were   *)
(* before the first socket.                                                *)
C16_SocketStateResetOnReconnect ==
    [][(Upgraded /\ ws.reconnect > 0 /\ ~ws'.closed) =>
          /\ ws'.current.buffer = Fresh.current.buffer
          /\ ws'.current.body = Fresh.current.body
          /\ ws'.current.type2 = Fresh.current.type2
          /\ ws'.inflatepending = Fresh.inflatepending
          /\ ws'.deflatepending = Fresh.deflatepending
          /\ ws'.inflatelock = Fresh.inflatelock
          /\ ws'.deflatelock = Fresh.deflatelock]_vars

(* C17: every connection attempt after the user's connect (the attempt of  *)
(* a reconnect timer, the retry after a non-101 response) goes to the      *)
(* target of the attempt before it, and leaves the stored url as it is.    *)
C17_RetriesKeepUrl ==
    [][(Connected /\ request'.state = "pending") =>
          /\ request'.target = request.target
          /\ ws'.url = ws.url]_vars

(* C18: every frame written by the deflate pipeline (RSV1 set) has the     *)
(* opcode of the configured payload kind, 1 for text and 2 for binary or   *)
(* buffer, and while the deflate context is held no data frame is written  *)
(* without RSV1.                                                           *)
C18_DeflatedFrameOpcode ==
    \A i \in DOMAIN written :
        /\ written[i].compress =>
              written[i].type = (IF ws.options.type = "text" THEN 1 ELSE 2)
        /\ (ws.deflate /\ written[i].type \in {1, 2}) => written[i].compress

\* the non-empty payloads of the control frames (close, ping, pong) the peer sent
ControlPayloads ==
    {FramesOf(peer.stream)[i].payload :
        i \in {j \in DOMAIN FramesOf(peer.stream) :
                  /\ FramesOf(peer.stream)[j].opcode \in {8, 9, 10}
                  /\ FramesOf(peer.stream)[j].length > 0}}

(* C19: the payload of a close, ping or pong frame is never in the inflate *)
(* queue and never in the frame payload slot (current.data).               *)
C19_ControlPayloadNotQueued ==
    /\ \A i \in DOMAIN ws.inflatepending : ws.inflatepending[i].buf \notin ControlPayloads
    /\ ws.current.data \notin ControlPayloads

(* C20: while the connection has no socket (never bound, or set to null by *)
(* free()), send, close and the deflate flush callback write nothing and   *)
(* do not raise.                                                           *)
C20_NoWriteToAbsentSocket ==
    [][(~ws.socket /\ (Send \/ Close \/ DeflateFlushed)) =>
          /\ result' # "TypeError"
          /\ written' = written]_vars

(* C21: the close frame that a local close writes is the last frame        *)
(* written on its socket: no data frame, ping or pong follows it, not even *)
(* one whose payload was in the deflate queue or in a deflate flush when   *)
(* close was called.                                                       *)
C21_NoFrameAfterClose ==
    \A i \in DOMAIN written : written[i].type = 8 => i = Len(written)

====
